---- MODULE Spec2Model ----
(***************************************************************************)
(* Model of excel_reader (src/src/main.rs): header collapsing, header      *)
(* uniquification, row normalisation and the parallel frame assembly of    *)
(* process_excel_worksheet.                                                *)
(*                                                                         *)
(* A Rust String is a sequence of one-character strings, so that prefix    *)
(* tests, trimming, joining and number formatting are computed rather      *)
(* than assumed.  Source indices are zero-based; sequences here are        *)
(* one-based, so source index i is position i + 1.                         *)
(***************************************************************************)
EXTENDS Integers, Sequences, FiniteSets, TLC

\* ------------------------------------------------------------------ bounds
MaxLabels == 3     \* longest label sequence given to process_headers
MaxHdrRows == 2    \* most header rows designated at once
MaxCols == 2       \* widest generated row
MaxRows == 3       \* most worksheet rows
MaxDataRows == 2   \* most rows given to extract_data
MaxWidth == 4      \* largest target width given to extract_data; rows have up to one cell more

\* ----------------------------------------------------------------- strings
EmptyStr == <<>>
sUnnamed == <<"U", "n", "n", "a", "m", "e", "d">>
sUnnamed_ == sUnnamed \o <<"_">>
sSpace == <<" ">>
sA == <<"A">>
sB == <<"B">>
sA_1 == <<"A", "_", "1">>
sUnnamed_1 == sUnnamed_ \o <<"1">>
sUnnamedQty == sUnnamed \o <<" ", "Q">>
sHeader1 == <<"H", "e", "a", "d", "e", "r", "1">>
sSales == <<"S", "a", "l", "e", "s">>
sRegion == <<"R", "e", "g", "i", "o", "n">>
sNorth == <<"N", "o", "r", "t", "h">>
sSouth == <<"S", "o", "u", "t", "h">>
sTrue == <<"t", "r", "u", "e">>
sFalse == <<"f", "a", "l", "s", "e">>
Digits == <<"0", "1", "2", "3", "4", "5", "6", "7", "8", "9">>

\* format!("{}", n) for an unsigned integer: its decimal digits.
RECURSIVE Decimal(_)
Decimal(n) ==
    IF n < 10 THEN <<Digits[n + 1]>>
    ELSE Decimal(n \div 10) \o <<Digits[(n % 10) + 1]>>

\* str::starts_with
starts_with(s, p) ==
    Len(s) >= Len(p) /\ SubSeq(s, 1, Len(p)) = p

IsWhite(ch) == ch \in {" ", "\t", "\n"}

\* str::trim: leading and trailing whitespace removed.
RECURSIVE trim_start(_)
trim_start(s) ==
    IF s # <<>> /\ IsWhite(Head(s)) THEN trim_start(Tail(s)) ELSE s

RECURSIVE trim_end(_)
trim_end(s) ==
    IF s # <<>> /\ IsWhite(s[Len(s)]) THEN trim_end(SubSeq(s, 1, Len(s) - 1)) ELSE s

trim(s) == trim_end(trim_start(s))

\* [String]::join(sep)
RECURSIVE join(_, _)
join(parts, sep) ==
    IF parts = <<>> THEN EmptyStr
    ELSE IF Len(parts) = 1 THEN parts[1]
    ELSE parts[1] \o sep \o join(Tail(parts), sep)

\* ------------------------------------------------------------------- cells
\* calamine::Data, the variants the model draws from.
DataEmpty == [tag |-> "Empty", s |-> EmptyStr, n |-> 0]
DataString(str) == [tag |-> "String", s |-> str, n |-> 0]
DataInt(i) == [tag |-> "Int", s |-> EmptyStr, n |-> i]
DataBool(b) == [tag |-> "Bool", s |-> EmptyStr, n |-> IF b THEN 1 ELSE 0]

\* Data::to_string (Display): Empty is "", a string is itself, an integer its
\* decimal digits, a boolean "true" or "false".
to_string(d) ==
    CASE d.tag = "Empty" -> EmptyStr
      [] d.tag = "String" -> d.s
      [] d.tag = "Int" -> Decimal(d.n)
      [] d.tag = "Bool" -> (IF d.n = 1 THEN sTrue ELSE sFalse)

\* ------------------------------------------------------------------- state
VARIABLES
    pc,                 \* position in the function being run
    rows,               \* process_excel_worksheet: the worksheet's rows
    header_arg,         \* process_excel_worksheet: header_rows: Option<Vec<usize>>
    header_rows,        \* process_excel_worksheet: header_rows after unwrap_or
    hk,                 \* position of the bounds-check loop in header_rows
    accessed,           \* indices i for which rows[i] has been evaluated
    header_cells,       \* collapse_multi_headers: its argument
    col_idx,            \* collapse_multi_headers: loop variable
    parts,              \* collapse_multi_headers: parts of the last column done
    collapsed,          \* collapse_multi_headers: collapsed
    headers,            \* process_headers / create_dataframe: headers argument
    ph_i,               \* process_headers: enumerate() counter
    processed_headers,  \* process_headers: processed_headers
    used_names,         \* process_headers: used_names
    data_rows,          \* extract_data: data_rows argument
    header_len,         \* extract_data: header_len argument
    data,               \* extract_data result / create_dataframe data argument
    task,               \* create_dataframe: state of the parallel task of column i
    col_data,           \* create_dataframe: col_data local of task i
    columns,            \* create_dataframe: output slot i of the collect
    done_order,         \* column indices in the order their tasks completed
    result              \* what the function returned

vars == <<pc, rows, header_arg, header_rows, hk, accessed, header_cells, col_idx,
    parts, collapsed, headers, ph_i, processed_headers, used_names, data_rows,
    header_len, data, task, col_data, columns, done_order, result>>

wsVars == <<rows, header_arg, header_rows, hk, accessed>>
collapseVars == <<header_cells, col_idx, parts, collapsed>>
phVars == <<ph_i, processed_headers, used_names>>
extractVars == <<data_rows, header_len>>
parVars == <<task, col_data, columns, done_order>>

NoResult == [kind |-> "None", err |-> "", frame |-> <<>>, labels |-> <<>>]
Err(msg) == [kind |-> "Err", err |-> msg, frame |-> <<>>, labels |-> <<>>]
Panic(msg) == [kind |-> "Panic", err |-> msg, frame |-> <<>>, labels |-> <<>>]
OkLabels(ls) == [kind |-> "Ok", err |-> "", frame |-> <<>>, labels |-> ls]
OkFrame(f) == [kind |-> "Ok", err |-> "", frame |-> f, labels |-> <<>>]

\* The idle value of every variable a specification does not use.
WsIdle ==
    /\ rows = <<>> /\ header_arg = [some |-> FALSE, v |-> <<>>]
    /\ header_rows = <<>> /\ hk = 1 /\ accessed = {}
CollapseIdle ==
    /\ header_cells = <<>> /\ col_idx = 0 /\ parts = <<>> /\ collapsed = <<>>
PhIdle ==
    /\ ph_i = 0 /\ processed_headers = <<>> /\ used_names = {}
ExtractIdle ==
    /\ data_rows = <<>> /\ header_len = 0
ParIdle ==
    /\ task = <<>> /\ col_data = <<>> /\ columns = <<>> /\ done_order = <<>>

\* --------------------------------------------------------- process_headers
\* let base_name = if header.is_empty() { format!("Unnamed_{}", i) } else { header.clone() }
BaseNameOneBased(i, header) ==
    IF header = EmptyStr THEN sUnnamed_ \o Decimal(i + 1) ELSE header

base_name(i, header) ==
    IF header = EmptyStr THEN sUnnamed_ \o Decimal(i) ELSE header

\* candidate: base_name while suffix is 0, then format!("{}_{}", base_name, suffix)
candidate(base, suffix) ==
    IF suffix = 0 THEN base ELSE base \o <<"_">> \o Decimal(suffix)

\* while used_names.contains(&candidate) { suffix += 1; ... }: the suffix the
\* loop stops at, starting from suffix.
RECURSIVE unique_suffix(_, _, _)
unique_suffix(base, used, suffix) ==
    IF candidate(base, suffix) \in used
    THEN unique_suffix(base, used, suffix + 1)
    ELSE suffix

\* used_names.insert(candidate.clone())
InsertNothing(used, cand) == used

used_insert(used, cand) == used \cup {cand}

\* One iteration of the for loop over headers.iter().enumerate().
PHIter ==
    /\ pc = "ph_loop"
    /\ ph_i < Len(headers)
    /\ LET header == headers[ph_i + 1]
           base == base_name(ph_i, header)
           cand == candidate(base, unique_suffix(base, used_names, 0))
       IN /\ used_names' = used_insert(used_names, cand)
          /\ processed_headers' = Append(processed_headers, cand)
    /\ ph_i' = ph_i + 1
    /\ UNCHANGED <<pc, headers, data, result>>
    /\ UNCHANGED <<wsVars, collapseVars, extractVars, parVars>>

\* The loop is exhausted: processed_headers is returned.
PHReturn ==
    /\ pc = "ph_loop"
    /\ ph_i = Len(headers)
    /\ pc' = "ph_done"
    /\ result' = OkLabels(processed_headers)
    /\ UNCHANGED <<headers, data, phVars>>
    /\ UNCHANGED <<wsVars, collapseVars, extractVars, parVars>>

\* process_headers as a function: the loop run to its end.
RECURSIVE ph_loop(_, _, _, _)
ph_loop(hs, i, processed, used) ==
    IF i = Len(hs) THEN processed
    ELSE LET base == base_name(i, hs[i + 1])
             cand == candidate(base, unique_suffix(base, used, 0))
         IN ph_loop(hs, i + 1, Append(processed, cand), used_insert(used, cand))

process_headers(hs) == ph_loop(hs, 0, <<>>, {})

\* Labels process_headers is called with: blank, plain, duplicate-prone, and
\* labels that already look like a generated name.
Labels == {EmptyStr, sA, sA_1, sUnnamed_1, sHeader1, sSpace}

RECURSIVE SeqsUpTo(_, _)
SeqsUpTo(S, n) ==
    IF n = 0 THEN {<<>>}
    ELSE LET shorter == SeqsUpTo(S, n - 1)
         IN shorter \cup {Append(q, x) : q \in {t \in shorter : Len(t) = n - 1}, x \in S}

InitPH ==
    /\ pc = "ph_loop"
    /\ headers \in SeqsUpTo(Labels, MaxLabels)
    /\ data = <<>>
    /\ result = NoResult
    /\ WsIdle /\ CollapseIdle /\ PhIdle /\ ExtractIdle /\ ParIdle

NextPH == PHIter \/ PHReturn

SpecPH == InitPH /\ [][NextPH]_vars

\* -------------------------------------------------- collapse_multi_headers
\* row.get(col_idx).map(|d| d.to_string()).unwrap_or_default()
raw_label(row, c) ==
    IF c < Len(row) THEN to_string(row[c + 1]) ELSE EmptyStr

\* .filter(|part| !part.starts_with("Unnamed") && !part.trim().is_empty())
keep_part(part) ==
    ~starts_with(part, sUnnamed) /\ trim(part) # EmptyStr

\* parts: the raw labels of column c, one per header row in order, filtered.
column_parts(hc, c) ==
    SelectSeq([r \in 1..Len(hc) |-> raw_label(hc[r], c)], keep_part)

\* if parts.is_empty() { format!("Unnamed_{}", col_idx) } else { parts.join(" ") }
CollapsedLabelOneBased(ps, c) ==
    IF ps = <<>> THEN sUnnamed_ \o Decimal(c + 1) ELSE join(ps, sSpace)

collapsed_label(ps, c) ==
    IF ps = <<>> THEN sUnnamed_ \o Decimal(c) ELSE join(ps, sSpace)

\* if header_cells.is_empty() { return Err("Empty header cells".into()); }
CollapseEmpty ==
    /\ pc = "collapse"
    /\ header_cells = <<>>
    /\ pc' = "collapse_done"
    /\ result' = Err("Empty header cells")
    /\ UNCHANGED <<headers, data, collapseVars>>
    /\ UNCHANGED <<wsVars, phVars, extractVars, parVars>>

\* One iteration of for col_idx in 0..cols, cols = header_cells[0].len().
CollapseCol ==
    /\ pc = "collapse"
    /\ header_cells # <<>>
    /\ col_idx < Len(header_cells[1])
    /\ parts' = column_parts(header_cells, col_idx)
    /\ collapsed' = Append(collapsed, collapsed_label(parts', col_idx))
    /\ col_idx' = col_idx + 1
    /\ UNCHANGED <<pc, header_cells, headers, data, result>>
    /\ UNCHANGED <<wsVars, phVars, extractVars, parVars>>

\* Ok(collapsed)
CollapseReturn ==
    /\ pc = "collapse"
    /\ header_cells # <<>>
    /\ col_idx = Len(header_cells[1])
    /\ pc' = "collapse_done"
    /\ result' = OkLabels(collapsed)
    /\ UNCHANGED <<headers, data, collapseVars>>
    /\ UNCHANGED <<wsVars, phVars, extractVars, parVars>>

\* collapse_multi_headers as a function: the loop run to its end.
collapse_multi_headers(hc) ==
    IF hc = <<>> THEN Err("Empty header cells")
    ELSE OkLabels([c \in 1..Len(hc[1]) |->
                      collapsed_label(column_parts(hc, c - 1), c - 1)])

\* Header cells the model draws from: empty, plain text, whitespace only,
\* a generated placeholder, text that begins with "Unnamed", a number, a
\* boolean.
HeaderPalette == <<DataEmpty, DataString(sA), DataString(sSpace),
    DataString(sUnnamed_1), DataString(sB), DataString(sUnnamed),
    DataInt(12), DataString(sUnnamedQty), DataBool(TRUE)>>

\* A row of n cells: the n palette entries from offset seed on, cyclically.
Window(palette, seed, n) ==
    [c \in 1..n |-> palette[((seed + c - 1) % Len(palette)) + 1]]

HeaderRowInputs ==
    {Window(HeaderPalette, seed, n) : seed \in 0..(Len(HeaderPalette) - 1), n \in 0..MaxCols}

BlankCollapseRows == <<<<DataString(EmptyStr), DataString(sSales), DataString(EmptyStr)>>>>
MultiRowMergeRows == <<<<DataString(sRegion), DataString(sRegion)>>,
    <<DataString(sNorth), DataString(sSouth)>>>>

InitCollapse ==
    /\ pc = "collapse"
    /\ header_cells \in
          SeqsUpTo(HeaderRowInputs, MaxHdrRows) \cup {BlankCollapseRows, MultiRowMergeRows}
    /\ col_idx = 0 /\ parts = <<>> /\ collapsed = <<>>
    /\ headers = <<>> /\ data = <<>>
    /\ result = NoResult
    /\ WsIdle /\ PhIdle /\ ExtractIdle /\ ParIdle

NextCollapse == CollapseEmpty \/ CollapseCol \/ CollapseReturn

SpecCollapse == InitCollapse /\ [][NextCollapse]_vars

\* ------------------------------------------------------------ extract_data
\* Vec::resize(new_len, value): truncates, or extends with value.
ResizePadOnly(cells, n, fill) ==
    IF Len(cells) >= n THEN cells
    ELSE cells \o [k \in 1..(n - Len(cells)) |-> fill]

resize(cells, n, fill) ==
    IF Len(cells) >= n THEN SubSeq(cells, 1, n)
    ELSE cells \o [k \in 1..(n - Len(cells)) |-> fill]

\* the closure of the map: cells stringified, then resized to header_len
extract_row(row, hlen) ==
    resize([c \in 1..Len(row) |-> to_string(row[c])], hlen, EmptyStr)

extract_data(drs, hlen) ==
    [r \in 1..Len(drs) |-> extract_row(drs[r], hlen)]

DataPalette == <<DataString(sA), DataInt(30), DataEmpty, DataBool(FALSE)>>

DataRowInputs ==
    {Window(DataPalette, seed, n) : seed \in 0..(Len(DataPalette) - 1), n \in 0..(MaxWidth + 1)}

\* extract_data(data_rows, header_len) called and returned.
ExtractData ==
    /\ pc = "extract"
    /\ data' = extract_data(data_rows, header_len)
    /\ pc' = "extract_done"
    /\ result' = [NoResult EXCEPT !.kind = "Ok"]
    /\ UNCHANGED <<headers, extractVars>>
    /\ UNCHANGED <<wsVars, collapseVars, phVars, parVars>>

InitExtract ==
    /\ pc = "extract"
    /\ data_rows \in SeqsUpTo(DataRowInputs, MaxDataRows)
    /\ header_len \in 0..MaxWidth
    /\ headers = <<>> /\ data = <<>>
    /\ result = NoResult
    /\ WsIdle /\ CollapseIdle /\ PhIdle /\ ParIdle

NextExtract == ExtractData

SpecExtract == InitExtract /\ [][NextExtract]_vars

\* ------------------------------------------------- process_excel_worksheet
OutOfBoundsMsg == "One of header row indices is out of bounds"

\* let header_rows = header_rows.unwrap_or(vec![0]);
\* let rows = range.rows().map(|row| row.to_vec()).collect();
Unwrap ==
    /\ pc = "start"
    /\ header_rows' = IF header_arg.some THEN header_arg.v ELSE <<0>>
    /\ hk' = 1
    /\ pc' = "check"
    /\ UNCHANGED <<rows, header_arg, accessed, headers, data, result>>
    /\ UNCHANGED <<collapseVars, phVars, extractVars, parVars>>

\* if idx >= rows.len()
OutOfBoundsOffByOne(idx, len) == idx > len

out_of_bounds(idx, len) == idx >= len

\* An iteration of for &idx in &header_rows whose index passes the check.
CheckInBounds ==
    /\ pc = "check"
    /\ hk <= Len(header_rows)
    /\ ~out_of_bounds(header_rows[hk], Len(rows))
    /\ hk' = hk + 1
    /\ UNCHANGED <<pc, rows, header_arg, header_rows, accessed, headers, data, result>>
    /\ UNCHANGED <<collapseVars, phVars, extractVars, parVars>>

\* return Err("One of header row indices is out of bounds".into());
CheckOutOfBounds ==
    /\ pc = "check"
    /\ hk <= Len(header_rows)
    /\ out_of_bounds(header_rows[hk], Len(rows))
    /\ result' = Err(OutOfBoundsMsg)
    /\ pc' = "done"
    /\ UNCHANGED <<rows, header_arg, header_rows, hk, accessed, headers, data>>
    /\ UNCHANGED <<collapseVars, phVars, extractVars, parVars>>

\* header_rows.iter().map(|&i| &rows[i][..]).collect(): rows[i] panics on the
\* first i that is not an index of rows, after the ones before it were read.
CollectHeaderCells ==
    /\ pc = "check"
    /\ hk > Len(header_rows)
    /\ LET bad == {k \in 1..Len(header_rows) : header_rows[k] >= Len(rows)}
           first_bad == CHOOSE k \in bad : \A k2 \in bad : k <= k2
       IN IF bad = {}
          THEN /\ header_cells' = [k \in 1..Len(header_rows) |-> rows[header_rows[k] + 1]]
               /\ accessed' = {header_rows[k] : k \in 1..Len(header_rows)}
               /\ pc' = "collapse_call"
               /\ UNCHANGED result
          ELSE /\ accessed' = {header_rows[k] : k \in 1..(first_bad - 1)}
               /\ result' = Panic("index out of bounds")
               /\ pc' = "done"
               /\ UNCHANGED header_cells
    /\ UNCHANGED <<rows, header_arg, header_rows, hk, headers, data>>
    /\ UNCHANGED <<col_idx, parts, collapsed, phVars, extractVars, parVars>>

\* let headers = collapse_multi_headers(&header_cells)?;
CollapseCall ==
    /\ pc = "collapse_call"
    /\ LET r == collapse_multi_headers(header_cells)
       IN IF r.kind = "Err"
          THEN /\ result' = r
               /\ pc' = "done"
               /\ UNCHANGED headers
          ELSE /\ headers' = r.labels
               /\ pc' = "slice"
               /\ UNCHANGED result
    /\ UNCHANGED <<data, wsVars, collapseVars, phVars, extractVars, parVars>>

SeqMax(q) == CHOOSE x \in {q[k] : k \in 1..Len(q)} : \A k \in 1..Len(q) : q[k] <= x

\* header_rows.iter().max().map(|x| x+1).unwrap_or(1)
DataStartAfterLastListed(hr) ==
    IF hr = <<>> THEN 1 ELSE hr[Len(hr)] + 1

data_start(hr) ==
    IF hr = <<>> THEN 1 ELSE SeqMax(hr) + 1

\* let data_rows = &rows[data_start..];   (panics when data_start > rows.len())
\* let data = extract_data(data_rows, headers.len());
SliceExtract ==
    /\ pc = "slice"
    /\ LET start == data_start(header_rows)
       IN IF start > Len(rows)
          THEN /\ result' = Panic("range start index out of range")
               /\ pc' = "done"
               /\ UNCHANGED <<data_rows, header_len, data>>
          ELSE /\ data_rows' = SubSeq(rows, start + 1, Len(rows))
               /\ header_len' = Len(headers)
               /\ data' = extract_data(data_rows', header_len')
               /\ pc' = "create"
               /\ UNCHANGED result
    /\ UNCHANGED <<headers, wsVars, collapseVars, phVars, parVars>>

\* -------------------------------------------------------- create_dataframe
EmptySlot == [filled |-> FALSE, name |-> EmptyStr, values |-> <<>>]

\* let headers = process_headers(headers); then the parallel iterator over
\* 0..headers.len() is started: one task and one output slot per index.
CreateBegin ==
    /\ pc = "create"
    /\ processed_headers' = process_headers(headers)
    /\ task' = [j \in 1..Len(processed_headers') |-> "ready"]
    /\ col_data' = [j \in 1..Len(processed_headers') |-> <<>>]
    /\ columns' = [j \in 1..Len(processed_headers') |-> EmptySlot]
    /\ done_order' = <<>>
    /\ pc' = "par"
    /\ UNCHANGED <<headers, data, result, ph_i, used_names>>
    /\ UNCHANGED <<wsVars, collapseVars, extractVars>>

\* Task i: let col_data = data.iter().map(|row| row[i].as_str()).collect();
\* row[i] panics when the row has no cell i.
TaskBuild(i) ==
    /\ pc = "par"
    /\ task[i + 1] = "ready"
    /\ IF \E r \in 1..Len(data) : Len(data[r]) <= i
       THEN /\ result' = Panic("index out of bounds")
            /\ pc' = "done"
            /\ UNCHANGED <<task, col_data>>
       ELSE /\ col_data' = [col_data EXCEPT ![i + 1] = [r \in 1..Len(data) |-> data[r][i + 1]]]
            /\ task' = [task EXCEPT ![i + 1] = "built"]
            /\ UNCHANGED <<pc, result>>
    /\ UNCHANGED <<headers, data, columns, done_order>>
    /\ UNCHANGED <<wsVars, collapseVars, phVars, extractVars>>

\* collect() of an indexed parallel iterator: the item of index i goes to
\* position i of the Vec, whenever its task finishes.
CollectByCompletion(cols, i, col) ==
    LET free == {j \in 1..Len(cols) : ~cols[j].filled}
        first == CHOOSE j \in free : \A j2 \in free : j <= j2
    IN [cols EXCEPT ![first] = col]

collect_slot(cols, i, col) ==
    [cols EXCEPT ![i + 1] = col]

\* Task i: Series::new(headers[i].clone().into(), &col_data).into(), collected.
TaskEmit(i) ==
    /\ pc = "par"
    /\ task[i + 1] = "built"
    /\ columns' = collect_slot(columns, i,
          [filled |-> TRUE, name |-> processed_headers[i + 1], values |-> col_data[i + 1]])
    /\ task' = [task EXCEPT ![i + 1] = "done"]
    /\ done_order' = Append(done_order, i)
    /\ UNCHANGED <<pc, headers, data, result, col_data>>
    /\ UNCHANGED <<wsVars, collapseVars, phVars, extractVars>>

Distinct(q) == \A a, b \in 1..Len(q) : a # b => q[a] # q[b]

\* Ok(DataFrame::new(columns)?): polars rejects duplicate column names and
\* columns of different lengths.
DataFrameNew ==
    /\ pc = "par"
    /\ \A j \in 1..Len(task) : task[j] = "done"
    /\ LET frame == [j \in 1..Len(columns) |->
                        [name |-> columns[j].name, values |-> columns[j].values]]
       IN result' =
             IF ~Distinct([j \in 1..Len(frame) |-> frame[j].name])
             THEN Err("duplicate column name")
             ELSE IF \E a, b \in 1..Len(frame) : Len(frame[a].values) # Len(frame[b].values)
             THEN Err("shape mismatch")
             ELSE OkFrame(frame)
    /\ pc' = "done"
    /\ UNCHANGED <<headers, data, wsVars, collapseVars, phVars, extractVars, parVars>>

\* Worksheet cells: a calamine Range is rectangular, so every row of a
\* worksheet has the same width, and a worksheet with rows has width >= 1.
WsPalette == <<DataString(sA), DataString(sA), DataEmpty, DataInt(30),
    DataString(sUnnamed_1), DataString(sB)>>

Worksheet(nrows, width, seed) ==
    [r \in 1..nrows |-> Window(WsPalette, seed + (r - 1) * width, width)]

Worksheets ==
    {Worksheet(nrows, width, seed) :
        nrows \in 0..MaxRows, width \in 1..MaxCols, seed \in 0..(Len(WsPalette) - 1)}

Init ==
    /\ pc = "start"
    /\ rows \in Worksheets
    /\ header_arg \in {[some |-> FALSE, v |-> <<>>]} \cup
          {[some |-> TRUE, v |-> q] : q \in SeqsUpTo(0..MaxRows, MaxHdrRows)}
    /\ header_rows = <<>> /\ hk = 1 /\ accessed = {}
    /\ headers = <<>> /\ data = <<>>
    /\ result = NoResult
    /\ CollapseIdle /\ PhIdle /\ ExtractIdle /\ ParIdle

Next ==
    \/ Unwrap
    \/ CheckInBounds
    \/ CheckOutOfBounds
    \/ CollectHeaderCells
    \/ CollapseCall
    \/ SliceExtract
    \/ CreateBegin
    \/ \E i \in 0..(Len(task) - 1) : TaskBuild(i)
    \/ \E i \in 0..(Len(task) - 1) : TaskEmit(i)
    \/ DataFrameNew

Spec == Init /\ [][Next]_vars

\* ================================================================== claims
Range(q) == {q[k] : k \in 1..Len(q)}

\* C1: process_headers returns as many names as it was given labels, all
\* non-empty and pairwise distinct; after every iteration of its pass the
\* used-name set is the set of names output so far and has as many elements
\* as labels processed.
C1_UniqueNonEmptyHeaders ==
    pc \in {"ph_loop", "ph_done"} =>
        /\ Len(processed_headers) = ph_i
        /\ used_names = Range(processed_headers)
        /\ Cardinality(used_names) = ph_i
        /\ \A k \in 1..Len(processed_headers) : processed_headers[k] # EmptyStr
        /\ Distinct(processed_headers)
        /\ pc = "ph_done" =>
              /\ result.kind = "Ok"
              /\ Len(result.labels) = Len(headers)
              /\ Distinct(result.labels)
              /\ \A k \in 1..Len(result.labels) : result.labels[k] # EmptyStr

\* C1 witness: a full-length input with a blank label and a repeated label
\* has been processed to the end.
C1_Witness ==
    /\ pc = "ph_done"
    /\ Len(headers) = MaxLabels
    /\ \E k \in 1..Len(headers) : headers[k] = EmptyStr
    /\ \E a, b \in 1..Len(headers) : a < b /\ headers[a] = headers[b] /\ headers[a] # EmptyStr
    /\ Len(result.labels) = MaxLabels

\* C2: the name at position i is the base name ("Unnamed_i" for an empty
\* label, i the zero-based position, else the label) when no earlier output
\* equals it, else "{base}_{k}" for the least k >= 1 that no earlier output
\* equals; ["Header1", "", "Header1"] gives ["Header1", "Unnamed_1", "Header1_1"].
C2_NamingRule ==
    /\ \A p \in 1..Len(processed_headers) :
          LET base == IF headers[p] = EmptyStr
                      THEN <<"U", "n", "n", "a", "m", "e", "d", "_">> \o Decimal(p - 1)
                      ELSE headers[p]
              earlier == {processed_headers[j] : j \in 1..(p - 1)}
              suffixed(k) == base \o <<"_">> \o Decimal(k)
              out == processed_headers[p]
          IN IF base \notin earlier
             THEN out = base
             ELSE \E k \in 1..p :
                     /\ out = suffixed(k)
                     /\ out \notin earlier
                     /\ \A k2 \in 1..(k - 1) : suffixed(k2) \in earlier
    /\ (pc = "ph_done" /\ headers = <<sHeader1, EmptyStr, sHeader1>>) =>
          result.labels = <<sHeader1, sUnnamed_1, sHeader1 \o <<"_", "1">>>>

\* C2 witness: the documented example has run to its end: a blank label
\* at position 1 and a repeated label.
C2_Witness ==
    /\ pc = "ph_done"
    /\ headers = <<sHeader1, EmptyStr, sHeader1>>
    /\ Len(result.labels) = 3

\* C3: a raw label is dropped from a column's parts if and only if it is
\* blank after trimming or begins with "Unnamed_"; any other label, one
\* beginning with "Unnamed" without the underscore included, is kept.
C3_FilterIffBlankOrPlaceholder ==
    (pc = "collapse" /\ col_idx > 0) =>
        LET raws == [r \in 1..Len(header_cells) |-> raw_label(header_cells[r], col_idx - 1)]
            survives(p) == ~(trim(p) = EmptyStr \/ starts_with(p, sUnnamed_))
        IN parts = SelectSeq(raws, survives)

\* C4: for a non-empty list of header rows the result has exactly cols
\* labels, cols the length of the first row; a shorter row counts as empty
\* cells where it has none; label c is the kept labels of column c joined by
\* one space in header-row order, or "Unnamed_c" when none is kept.
C4_CollapsedLabels ==
    (pc = "collapse_done" /\ header_cells # <<>>) =>
        LET cols == Len(header_cells[1])
            padded(row) == [c \in 1..cols |-> IF c <= Len(row) THEN row[c] ELSE DataEmpty]
            kept(c) == SelectSeq([r \in 1..Len(header_cells) |->
                                     to_string(padded(header_cells[r])[c])], keep_part)
        IN /\ result.kind = "Ok"
           /\ Len(result.labels) = cols
           /\ \A c \in 1..cols :
                 result.labels[c] =
                    IF kept(c) = <<>>
                    THEN <<"U", "n", "n", "a", "m", "e", "d", "_">> \o Decimal(c - 1)
                    ELSE join(kept(c), <<" ">>)
           /\ header_cells = BlankCollapseRows =>
                 result.labels = <<sUnnamed_ \o <<"0">>, sSales, sUnnamed_ \o <<"2">>>>
           /\ header_cells = MultiRowMergeRows =>
                 result.labels = <<sRegion \o <<" ">> \o sNorth, sRegion \o <<" ">> \o sSouth>>

\* C4 witness: two header rows, the second shorter than the first, with a
\* column where both labels are kept and a column where none is.
C4_Witness ==
    /\ pc = "collapse_done"
    /\ Len(header_cells) = 2
    /\ Len(header_cells[2]) < Len(header_cells[1])
    /\ Len(header_cells[1]) = 2
    /\ \E c \in 1..2 : Len(column_parts(header_cells, c - 1)) = 2
    /\ \E c \in 1..2 : result.labels[c] = sUnnamed_ \o Decimal(c - 1)

\* C5: extract_data keeps the number and order of rows and gives every row
\* exactly header_len strings: its cells stringified in order, cut at
\* header_len, then empty strings up to header_len; it never fails.
C5_RowsNormalised ==
    pc = "extract_done" =>
        /\ result.kind = "Ok"
        /\ Len(data) = Len(data_rows)
        /\ \A r \in 1..Len(data) :
              /\ Len(data[r]) = header_len
              /\ \A c \in 1..header_len :
                    data[r][c] = IF c <= Len(data_rows[r])
                                 THEN to_string(data_rows[r][c])
                                 ELSE EmptyStr

\* C5 witness: a 2-cell row and a 5-cell row normalised to width 4.
C5_Witness ==
    /\ pc = "extract_done"
    /\ header_len = 4
    /\ Len(data_rows) = 2
    /\ Len(data_rows[1]) = 2 /\ Len(data_rows[2]) = 5
    /\ data[1][3] = EmptyStr /\ data[1][4] = EmptyStr
    /\ Len(data[2]) = 4

\* The header row list is non-empty and every index is a row of the worksheet.
InBoundsHeader ==
    header_rows # <<>> /\ \A k \in 1..Len(header_rows) : header_rows[k] < Len(rows)

\* C6: with an in-bounds, non-empty header row list (the default [0]
\* included) the data region is the rows of index >= max(header_rows) + 1 in
\* worksheet order; the frame has one column per final header, each of
\* length row_count - (max + 1); slicing never goes out of range.
C6_DataRegion ==
    /\ result.kind # "Panic"
    /\ (pc = "done" /\ InBoundsHeader) =>
          LET m == CHOOSE x \in Range(header_rows) : \A y \in Range(header_rows) : y <= x
              n == Len(rows) - (m + 1)
          IN /\ result.kind = "Ok"
             /\ n >= 0
             /\ Len(result.frame) = Len(processed_headers)
             /\ Len(result.frame) = Len(rows[header_rows[1] + 1])
             /\ \A j \in 1..Len(result.frame) :
                   /\ result.frame[j].name = processed_headers[j]
                   /\ Len(result.frame[j].values) = n
                   /\ \A r \in 1..n :
                         result.frame[j].values[r] = to_string(rows[m + 1 + r][j])

\* C6 witness: header rows 0 and 2 of a three-row worksheet: row 1 lies
\* between them and the last row is a header row, so no data row is left.
C6_Witness ==
    /\ pc = "done"
    /\ Len(rows) = 3
    /\ header_rows = <<0, 2>>
    /\ result.kind = "Ok"
    /\ Len(result.frame) = 2
    /\ \A j \in 1..2 : result.frame[j].values = <<>>

\* C7: a header row index >= the row count, at any position of the list,
\* makes process_excel_worksheet return the out-of-bounds error with no
\* frame and before any row has been indexed.
C7_OutOfBounds ==
    /\ (pc = "done" /\ \E k \in 1..Len(header_rows) : header_rows[k] >= Len(rows)) =>
          /\ result = Err(OutOfBoundsMsg)
          /\ accessed = {}
          /\ header_cells = <<>> /\ columns = <<>>
    /\ result.kind = "Err" /\ result.err = OutOfBoundsMsg => accessed = {}

\* C7 witness: the offending index is the second of the list, after an
\* index that is in bounds.
C7_Witness ==
    /\ pc = "done"
    /\ Len(header_rows) = 2
    /\ header_rows[1] < Len(rows)
    /\ header_rows[2] >= Len(rows)
    /\ result.kind = "Err"

\* C8: an empty header row list, or one naming a row twice, makes building
\* the frame fail with an error and no frame.
C8_EmptyOrDuplicateRejected ==
    (pc = "done" /\ (header_rows = <<>> \/ ~Distinct(header_rows))) =>
        result.kind = "Err" /\ result.frame = <<>>

ExpectedColumn(j) ==
    [filled |-> TRUE, name |-> processed_headers[j], values |-> [r \in 1..Len(data) |-> data[r][j]]]

\* A slot is filled exactly when its own task is done, with that task's column;
\* the frame returned is the sequential one.
C10_SlotsInv ==
    /\ pc = "par" =>
          \A j \in 1..Len(columns) :
             /\ columns[j].filled <=> task[j] = "done"
             /\ columns[j].filled => columns[j] = ExpectedColumn(j)
    /\ (pc = "done" /\ result.kind = "Ok") =>
          result.frame = [j \in 1..Len(processed_headers) |->
                             [name |-> processed_headers[j],
                              values |-> [r \in 1..Len(data) |-> data[r][j]]]]

\* A step of the parallel phase is the step of one task: it leaves the headers,
\* the data rows and every other task's slot and local as they were.
C10_TaskStep ==
    (pc = "par" /\ pc' = "par") =>
        /\ processed_headers' = processed_headers
        /\ data' = data
        /\ \E j \in 1..Len(task) :
              /\ task'[j] # task[j]
              /\ \A j2 \in 1..Len(task) : j2 # j =>
                    /\ task'[j2] = task[j2]
                    /\ columns'[j2] = columns[j2]
                    /\ col_data'[j2] = col_data[j2]

\* C10: under every interleaving and completion order of the per-column
\* tasks, a task only reads the headers and the data rows and writes only
\* its own slot, and the frame's column i is named FinalHeader[i] and holds
\* row[i] of every data row in order: the frame of a sequential loop.
C10_ParallelColumns ==
    [](C10_SlotsInv) /\ [][C10_TaskStep]_vars

\* C10 witness: a frame of two columns and at least one data row was built
\* with the task of column 1 completing before the task of column 0.
C10_Witness ==
    /\ pc = "done"
    /\ result.kind = "Ok"
    /\ done_order = <<1, 0>>
    /\ Len(data) >= 1
    /\ result.frame[1].values # result.frame[2].values

====
